---- MODULE Spec2Model ----
(***************************************************************************)
(* Address spaces of os/src/mm/memory_set.rs: MemorySet (a page table, a   *)
(* list of MapAreas and the raw-mmap frame map), MapArea, the constructors *)
(* new_bare / new_kernel / from_elf, insert_framed_area, shrink_to,        *)
(* append_to, mmap, munmap and kernel_stack_position.                      *)
(*                                                                         *)
(* The page table, the frame allocator, VPNRange and config.rs are not in  *)
(* memory_set.rs; they are modelled from their description: map/unmap/     *)
(* translate on a sparse table, a stack allocator, a half-open range.      *)
(* A Rust panic (unwrap on None, a failed assert) stops the kernel: the    *)
(* model moves to the single state Panicked and stays there.               *)
(***************************************************************************)
EXTENDS Integers, Sequences, FiniteSets, TLC

(*************************** bounds of the model ***************************)
\* virtual page numbers 0..MaxVpn are the page arguments the callers pass
MaxVpn == 3
\* physical frames the allocator starts with
NumFrames == 6
\* operations applied to an address space after its construction
MaxOps == 2
\* width of usize in the model (64 in the build); TRAMPOLINE is its top page
UsizeBits == 16
\* task indices passed to kernel_stack_position
MaxApp == 5

(******************************* config.rs *********************************)
PAGE_SIZE == 4096
USER_STACK_SIZE == 8192
KERNEL_STACK_SIZE == 8192
UsizeMod == 2 ^ UsizeBits
\* usize::MAX - PAGE_SIZE + 1
TRAMPOLINE == UsizeMod - PAGE_SIZE
TRAP_CONTEXT_BASE == TRAMPOLINE - PAGE_SIZE

(**************************** linker symbols *******************************)
\* one page each for .text, .rodata, .data, .bss; the frame pool lies
\* between ekernel and MEMORY_END
stext == 1 * PAGE_SIZE
etext == 2 * PAGE_SIZE
srodata == 2 * PAGE_SIZE
erodata == 3 * PAGE_SIZE
sdata == 3 * PAGE_SIZE
edata == 4 * PAGE_SIZE
sbss_with_stack == 4 * PAGE_SIZE
ebss == 5 * PAGE_SIZE
ekernel == 5 * PAGE_SIZE
MEMORY_END == ekernel + NumFrames * PAGE_SIZE
\* physical page of the trap entry code, inside .text
strampoline == stext

(************************* addresses and flags *****************************)
\* VirtAddr::floor
floor(va) == va \div PAGE_SIZE
\* VirtAddr::ceil
ceil(va) == (va + PAGE_SIZE - 1) \div PAGE_SIZE
\* VirtAddr::from(VirtPageNum)
VpnToVa(vpn) == vpn * PAGE_SIZE

\* PTEFlags bits; MapPermission uses the same positions for R W X U
PTE_V == 1
PTE_R == 2
PTE_W == 4
PTE_X == 8
PTE_U == 16
MapPermission_R == 2
MapPermission_W == 4
MapPermission_X == 8
MapPermission_U == 16

\* bit k (a power of two) of the unsigned number n
HasBit(n, k) == (n \div k) % 2 = 1
\* n | k for a single bit k
SetBit(n, k) == IF HasBit(n, k) THEN n ELSE n + k
\* n & mask for mask = R|W|X|U
PermBits(n) == ((n \div 2) % 16) * 2

(****************************** page table *********************************)
\* PageTableEntry::empty
EmptyPTE == [ppn |-> 0, flags |-> 0]
\* translate's None
NoPTE == [ppn |-> 0 - 1, flags |-> 0]
\* PageTable::translate: the entry, or None where nothing was ever mapped
PTTranslate(pt, vpn) == IF vpn \in DOMAIN pt THEN pt[vpn] ELSE NoPTE
\* PageTableEntry::is_valid
is_valid(pte) == HasBit(pte.flags, PTE_V)
\* translate(vpn) is Some(pte) with pte.is_valid()
Valid(pt, vpn) == vpn \in DOMAIN pt /\ is_valid(pt[vpn])
\* PageTable::map: writes the entry with the valid bit forced
PTMap(pt, vpn, ppn, flags) ==
    [v \in DOMAIN pt \cup {vpn} |->
        IF v = vpn THEN [ppn |-> ppn, flags |-> SetBit(flags, PTE_V)] ELSE pt[v]]
\* PageTable::unmap: the entry becomes PageTableEntry::empty()
PTUnmap(pt, vpn) ==
    [v \in DOMAIN pt \cup {vpn} |-> IF v = vpn THEN EmptyPTE ELSE pt[v]]
\* the empty function: PageTable::new, BTreeMap::new
EmptyMap == [v \in {} |-> 0]

(**************************** frame allocator ******************************)
\* physical page numbers of the pool [ekernel, MEMORY_END)
FramePool == {ceil(ekernel) + i : i \in 0 .. NumFrames - 1}
\* the pool in ascending order, as the allocator hands it out
RECURSIVE AscendingFrom(_, _)
AscendingFrom(p, n) == IF n = 0 THEN <<>> ELSE <<p>> \o AscendingFrom(p + 1, n - 1)
\* dropping a FrameTracker: the frame is recycled and handed out next
frame_dealloc(fa, ppn) == <<ppn>> \o fa
\* BTreeMap::remove on a frame map: the tracker, if any, is dropped
MapRemove(m, vpn) == [v \in DOMAIN m \ {vpn} |-> m[v]]
\* BTreeMap::insert on a frame map
MapInsert(m, vpn, ppn) == [v \in DOMAIN m \cup {vpn} |-> IF v = vpn THEN ppn ELSE m[v]]
\* the allocator after the tracker stored under vpn, if any, is dropped
DropAt(fa, m, vpn) == IF vpn \in DOMAIN m THEN frame_dealloc(fa, m[vpn]) ELSE fa

(******************************** MapArea **********************************)
\* VPNRange::new asserts start <= end
VPNRangeOk(l, r) == l <= r
\* MapArea::new: floor of the start, ceil of the end, no frame yet
MapArea_new(start_va, end_va, map_type, map_perm) ==
    [vpn_range |-> [l |-> floor(start_va), r |-> ceil(end_va)],
     data_frames |-> EmptyMap,
     map_type |-> map_type,
     map_perm |-> map_perm]
\* PTEFlags::from_bits(map_perm.bits): the same bit positions
PTEFlags_from_bits(bits) == bits % 256
\* physical memory: each page a sequence of extents [src, len] of image
\* bytes, followed by zeroes; FrameTracker::new clears the page
ZeroPage == <<>>
MemWrite(mem, ppn, page) ==
    [p \in DOMAIN mem \cup {ppn} |-> IF p = ppn THEN page ELSE mem[p]]

\* A step of an operation works on X = [pt, fa, mem, area, ok]: the page
\* table, the allocator, physical memory, the MapArea at hand and whether
\* the kernel is still running.
Panic(X) == [X EXCEPT !.ok = FALSE]

\* map_one handing out the next free frame without taking it off the
\* allocator
map_one_no_pop(X, vpn) ==
    LET a == X.area
        framed == a.map_type = "Framed"
        ppn == IF framed THEN Head(X.fa) ELSE vpn
        a1 == IF framed
              THEN [a EXCEPT !.data_frames = MapInsert(a.data_frames, vpn, ppn)]
              ELSE a
    IN  IF (framed /\ X.fa = <<>>) \/ Valid(X.pt, vpn)
        THEN Panic(X)
        ELSE [pt |-> PTMap(X.pt, vpn, ppn, PTEFlags_from_bits(a.map_perm)),
              fa |-> X.fa, mem |-> X.mem, area |-> a1, ok |-> TRUE]
\* MapArea::map_one
map_one(X, vpn) ==
    LET a == X.area
        framed == a.map_type = "Framed"
        exhausted == framed /\ X.fa = <<>>
        ppn == IF framed THEN Head(X.fa) ELSE vpn
        fa1 == IF framed THEN DropAt(Tail(X.fa), a.data_frames, vpn) ELSE X.fa
        mem1 == IF framed THEN MemWrite(X.mem, ppn, ZeroPage) ELSE X.mem
        a1 == IF framed
              THEN [a EXCEPT !.data_frames = MapInsert(a.data_frames, vpn, ppn)]
              ELSE a
        pte_flags == PTEFlags_from_bits(a.map_perm)
    IN  IF exhausted \/ Valid(X.pt, vpn)
        THEN Panic(X)
        ELSE [pt |-> PTMap(X.pt, vpn, ppn, pte_flags), fa |-> fa1, mem |-> mem1,
              area |-> a1, ok |-> TRUE]

\* unmap_one without `self.data_frames.remove(&vpn)`
unmap_one_keeps_frame(X, vpn) ==
    IF ~Valid(X.pt, vpn) THEN Panic(X) ELSE [X EXCEPT !.pt = PTUnmap(X.pt, vpn)]
\* unmap_one without `page_table.unmap(vpn)`
unmap_one_keeps_entry(X, vpn) ==
    LET a == X.area
        framed == a.map_type = "Framed"
    IN  IF ~Valid(X.pt, vpn)
        THEN Panic(X)
        ELSE [X EXCEPT
                !.fa = IF framed THEN DropAt(X.fa, a.data_frames, vpn) ELSE X.fa,
                !.area.data_frames = IF framed THEN MapRemove(a.data_frames, vpn)
                                     ELSE a.data_frames]
\* MapArea::unmap_one
unmap_one(X, vpn) ==
    LET a == X.area
        framed == a.map_type = "Framed"
        fa1 == IF framed THEN DropAt(X.fa, a.data_frames, vpn) ELSE X.fa
        a1 == IF framed
              THEN [a EXCEPT !.data_frames = MapRemove(a.data_frames, vpn)]
              ELSE a
    IN  IF ~Valid(X.pt, vpn)
        THEN Panic(X)
        ELSE [pt |-> PTUnmap(X.pt, vpn), fa |-> fa1, mem |-> X.mem,
              area |-> a1, ok |-> TRUE]

\* for vpn in VPNRange::new(l, r) { self.map_one(page_table, vpn) }
RECURSIVE MapRange(_, _, _)
MapRange(X, vpn, r) ==
    IF ~X.ok \/ vpn >= r THEN X ELSE MapRange(map_one(X, vpn), vpn + 1, r)
\* for vpn in VPNRange::new(l, r) { self.unmap_one(page_table, vpn) }
RECURSIVE UnmapRange(_, _, _)
UnmapRange(X, vpn, r) ==
    IF ~X.ok \/ vpn >= r THEN X ELSE UnmapRange(unmap_one(X, vpn), vpn + 1, r)

\* MapArea::map
MapArea_map(X) == MapRange(X, X.area.vpn_range.l, X.area.vpn_range.r)

SetEnd(X, new_end) == [X EXCEPT !.area.vpn_range.r = new_end]
\* shrink_to that only moves the end of the range
MapArea_shrink_to_no_unmap(X, new_end) ==
    IF ~VPNRangeOk(new_end, X.area.vpn_range.r)
          \/ ~VPNRangeOk(X.area.vpn_range.l, new_end)
    THEN Panic(X)
    ELSE SetEnd(X, new_end)
\* MapArea::shrink_to
MapArea_shrink_to(X, new_end) ==
    IF ~VPNRangeOk(new_end, X.area.vpn_range.r)
    THEN Panic(X)
    ELSE LET X1 == UnmapRange(X, new_end, X.area.vpn_range.r)
         IN  IF ~X1.ok \/ ~VPNRangeOk(X1.area.vpn_range.l, new_end)
             THEN Panic(X1)
             ELSE SetEnd(X1, new_end)
\* MapArea::append_to
MapArea_append_to(X, new_end) ==
    IF ~VPNRangeOk(X.area.vpn_range.r, new_end)
    THEN Panic(X)
    ELSE LET X1 == MapRange(X, X.area.vpn_range.r, new_end)
         IN  IF ~X1.ok \/ ~VPNRangeOk(X1.area.vpn_range.l, new_end)
             THEN Panic(X1)
             ELSE SetEnd(X1, new_end)

\* the first n bytes of a page's extents are dropped
RECURSIVE DropBytes(_, _)
DropBytes(page, n) ==
    IF page = <<>> \/ n = 0 THEN page
    ELSE IF Head(page).len <= n THEN DropBytes(Tail(page), n - Head(page).len)
    ELSE <<[src |-> Head(page).src + n, len |-> Head(page).len - n]>> \o Tail(page)
\* copy_from_slice filling the whole page whatever the length of src
CopyInto_whole_page(page, src, n) == <<[src |-> src, len |-> PAGE_SIZE]>>
\* dst[..n].copy_from_slice(data[start..start+n]), data being the image
\* bytes from offset on
CopyInto(page, src, n) ==
    IF n = 0 THEN page ELSE <<[src |-> src, len |-> n]>> \o DropBytes(page, n)
Min(a, b) == IF a <= b THEN a ELSE b
\* get_bytes_array()[b]: the index of the source byte the page holds at b,
\* -1 where it holds zero
RECURSIVE ByteAt(_, _)
ByteAt(page, b) ==
    IF page = <<>> THEN 0 - 1
    ELSE IF b < Head(page).len THEN Head(page).src + b
    ELSE ByteAt(Tail(page), b - Head(page).len)
\* MapArea::copy_data, the loop from `start` at page current_vpn; the
\* data is the image's bytes [offset, offset + len)
RECURSIVE copy_loop(_, _, _, _, _)
copy_loop(X, offset, len, start, current_vpn) ==
    LET n == Min(len, start + PAGE_SIZE) - start
        pte == PTTranslate(X.pt, current_vpn)
    IN  IF pte = NoPTE
        THEN Panic(X)
        ELSE LET old == IF pte.ppn \in DOMAIN X.mem THEN X.mem[pte.ppn] ELSE ZeroPage
                 X1 == [X EXCEPT !.mem = MemWrite(X.mem, pte.ppn,
                                                  CopyInto(old, offset + start, n))]
             IN  IF start + PAGE_SIZE >= len
                 THEN X1
                 ELSE copy_loop(X1, offset, len, start + PAGE_SIZE, current_vpn + 1)
\* MapArea::copy_data
copy_data(X, offset, len) ==
    IF X.area.map_type # "Framed"
    THEN Panic(X)
    ELSE copy_loop(X, offset, len, 0, X.area.vpn_range.l)

(******************************* MemorySet *********************************)
\* An operation of MemorySet works on M = [pt, areas, mmap_frames, fa, mem,
\* ok]: the three fields of the struct, the allocator, physical memory and
\* whether the kernel is still running.
NoData == [some |-> FALSE, offset |-> 0, len |-> 0]
SomeData(offset, len) == [some |-> TRUE, offset |-> offset, len |-> len]
AreaCtx(M, area) ==
    [pt |-> M.pt, fa |-> M.fa, mem |-> M.mem, area |-> area, ok |-> M.ok]
\* MemorySet::new_bare, with the allocator and memory it runs on
new_bare(fa, mem) ==
    [pt |-> EmptyMap, areas |-> <<>>, mmap_frames |-> EmptyMap,
     fa |-> fa, mem |-> mem, ok |-> TRUE]
\* MemorySet::push; map_area.r < map_area.l is MapArea::new's failed assert
push(M, map_area, data) ==
    IF ~M.ok \/ ~VPNRangeOk(map_area.vpn_range.l, map_area.vpn_range.r)
    THEN [M EXCEPT !.ok = FALSE]
    ELSE LET X1 == MapArea_map(AreaCtx(M, map_area))
             X2 == IF X1.ok /\ data.some
                   THEN copy_data(X1, data.offset, data.len)
                   ELSE X1
         IN  [M EXCEPT !.pt = X2.pt, !.fa = X2.fa, !.mem = X2.mem, !.ok = X2.ok,
                       !.areas = Append(M.areas, X2.area)]
\* MemorySet::insert_framed_area
insert_framed_area(M, start_va, end_va, permission) ==
    push(M, MapArea_new(start_va, end_va, "Framed", permission), NoData)
\* MemorySet::map_trampoline
map_trampoline(M) ==
    IF Valid(M.pt, floor(TRAMPOLINE))
    THEN [M EXCEPT !.ok = FALSE]
    ELSE [M EXCEPT !.pt = PTMap(M.pt, floor(TRAMPOLINE), floor(strampoline),
                                PTE_R + PTE_X)]
\* MemorySet::new_kernel
new_kernel(fa, mem) ==
    LET M0 == map_trampoline(new_bare(fa, mem))
        M1 == push(M0, MapArea_new(stext, etext, "Identical",
                                   MapPermission_R + MapPermission_X), NoData)
        M2 == push(M1, MapArea_new(srodata, erodata, "Identical",
                                   MapPermission_R), NoData)
        M3 == push(M2, MapArea_new(sdata, edata, "Identical",
                                   MapPermission_R + MapPermission_W), NoData)
        M4 == push(M3, MapArea_new(sbss_with_stack, ebss, "Identical",
                                   MapPermission_R + MapPermission_W), NoData)
    IN  push(M4, MapArea_new(ekernel, MEMORY_END, "Identical",
                             MapPermission_R + MapPermission_W), NoData)

\* the permission of a program header without MapPermission::U
ph_map_perm_no_user(ph) ==
    (IF ph.is_read THEN MapPermission_R ELSE 0)
      + (IF ph.is_write THEN MapPermission_W ELSE 0)
      + (IF ph.is_execute THEN MapPermission_X ELSE 0)
\* the permission from_elf derives from a program header's flags
ph_map_perm(ph) ==
    LET p0 == MapPermission_U
        p1 == IF ph.is_read THEN SetBit(p0, MapPermission_R) ELSE p0
        p2 == IF ph.is_write THEN SetBit(p1, MapPermission_W) ELSE p1
    IN  IF ph.is_execute THEN SetBit(p2, MapPermission_X) ELSE p2
\* from_elf's loop over the program headers i..ph_count-1; L = [M, max_end_vpn]
RECURSIVE load_headers(_, _, _)
load_headers(L, phs, i) ==
    IF ~L.M.ok \/ i > Len(phs) THEN L
    ELSE LET ph == phs[i]
             start_va == ph.virtual_addr
             end_va == ph.virtual_addr + ph.mem_size
             map_area == MapArea_new(start_va, end_va, "Framed", ph_map_perm(ph))
         IN  IF ph.type # "Load"
             THEN load_headers(L, phs, i + 1)
             ELSE load_headers(
                    [M |-> push(L.M, map_area, SomeData(ph.offset, ph.file_size)),
                     max_end_vpn |-> map_area.vpn_range.r],
                    phs, i + 1)
\* MemorySet::from_elf: [M, user_sp, entry]
from_elf(elf, fa, mem) ==
    LET M0 == map_trampoline(new_bare(fa, mem))
        M1 == IF elf.magic_ok THEN M0 ELSE [M0 EXCEPT !.ok = FALSE]
        L == load_headers([M |-> M1, max_end_vpn |-> 0], elf.phs, 1)
        max_end_va == VpnToVa(L.max_end_vpn)
        user_stack_bottom == max_end_va + PAGE_SIZE
        user_stack_top == user_stack_bottom + USER_STACK_SIZE
        M2 == push(L.M, MapArea_new(user_stack_bottom, user_stack_top, "Framed",
                     MapPermission_R + MapPermission_W + MapPermission_U), NoData)
        M3 == push(M2, MapArea_new(user_stack_top, user_stack_top, "Framed",
                     MapPermission_R + MapPermission_W + MapPermission_U), NoData)
        M4 == push(M3, MapArea_new(TRAP_CONTEXT_BASE, TRAMPOLINE, "Framed",
                     MapPermission_R + MapPermission_W), NoData)
    IN  [M |-> M4, user_sp |-> user_stack_top, entry |-> elf.entry_point]

\* areas.iter_mut().find(|area| area.vpn_range.get_start() == start.floor()):
\* the index of the first such area, 0 if there is none
\* the lookup comparing the end of the range instead of its start
RECURSIVE find_area_by_end(_, _, _)
find_area_by_end(areas_, start_vpn, i) ==
    IF i > Len(areas_) THEN 0
    ELSE IF areas_[i].vpn_range.r = start_vpn THEN i
    ELSE find_area_by_end(areas_, start_vpn, i + 1)
RECURSIVE find_area(_, _, _)
find_area(areas_, start_vpn, i) ==
    IF i > Len(areas_) THEN 0
    ELSE IF areas_[i].vpn_range.l = start_vpn THEN i
    ELSE find_area(areas_, start_vpn, i + 1)
\* the MemorySet after its area i was worked on as X
PutArea(M, i, X) ==
    [M EXCEPT !.pt = X.pt, !.fa = X.fa, !.mem = X.mem, !.ok = X.ok,
              !.areas = [M.areas EXCEPT ![i] = X.area]]
\* MemorySet::shrink_to: [M, ret]
shrink_to(M, start, new_end) ==
    LET i == find_area(M.areas, floor(start), 1)
    IN  IF i = 0 THEN [M |-> M, ret |-> FALSE]
        ELSE [M |-> PutArea(M, i, MapArea_shrink_to(AreaCtx(M, M.areas[i]),
                                                    ceil(new_end))),
              ret |-> TRUE]
\* MemorySet::append_to: [M, ret]
append_to(M, start, new_end) ==
    LET i == find_area(M.areas, floor(start), 1)
    IN  IF i = 0 THEN [M |-> M, ret |-> FALSE]
        ELSE [M |-> PutArea(M, i, MapArea_append_to(AreaCtx(M, M.areas[i]),
                                                    ceil(new_end))),
              ret |-> TRUE]

\* the flags of mmap without `flags |= PTEFlags::U`
mmap_flags_no_user(port) ==
    LET f1 == IF port % 2 # 0 THEN PTE_R ELSE 0
        f2 == IF (port \div 2) % 2 # 0 THEN f1 + PTE_W ELSE f1
        f3 == IF (port \div 4) % 2 # 0 THEN f2 + PTE_X ELSE f2
    IN  f3 + PTE_V
\* the PTEFlags mmap derives from port
mmap_flags(port) ==
    LET f0 == 0
        f1 == IF port % 2 # 0 THEN SetBit(f0, PTE_R) ELSE f0
        f2 == IF (port \div 2) % 2 # 0 THEN SetBit(f1, PTE_W) ELSE f1
        f3 == IF (port \div 4) % 2 # 0 THEN SetBit(f2, PTE_X) ELSE f2
    IN  SetBit(SetBit(f3, PTE_U), PTE_V)
\* one pass of the while loop of mmap in which frame exhaustion is retried
\* instead of returning -1
mmap_iteration_retry(M, vpn, end_vpn, flags) ==
    IF vpn = end_vpn THEN [M |-> M, vpn |-> vpn, done |-> TRUE, ret |-> 0]
    ELSE IF Valid(M.pt, vpn) THEN [M |-> M, vpn |-> vpn, done |-> TRUE, ret |-> 0 - 1]
    ELSE IF M.fa = <<>> THEN [M |-> M, vpn |-> vpn, done |-> FALSE, ret |-> 0]
    ELSE [M |-> [M EXCEPT
                   !.pt = PTMap(M.pt, vpn, Head(M.fa), flags),
                   !.mem = MemWrite(M.mem, Head(M.fa), ZeroPage),
                   !.fa = DropAt(Tail(M.fa), M.mmap_frames, vpn),
                   !.mmap_frames = MapInsert(M.mmap_frames, vpn, Head(M.fa))],
          vpn |-> vpn + 1, done |-> FALSE, ret |-> 0]
\* one pass of the while loop of MemorySet::mmap, its test included:
\* the MemorySet, the loop variable, whether mmap returned, and what
mmap_iteration(M, vpn, end_vpn, flags) ==
    IF vpn = end_vpn THEN [M |-> M, vpn |-> vpn, done |-> TRUE, ret |-> 0]
    ELSE IF Valid(M.pt, vpn) THEN [M |-> M, vpn |-> vpn, done |-> TRUE, ret |-> 0 - 1]
    ELSE IF M.fa = <<>> THEN [M |-> M, vpn |-> vpn, done |-> TRUE, ret |-> 0 - 1]
    ELSE LET ppn == Head(M.fa)
             M1 == [M EXCEPT
                      !.pt = PTMap(M.pt, vpn, ppn, flags),
                      !.mem = MemWrite(M.mem, ppn, ZeroPage),
                      !.fa = DropAt(Tail(M.fa), M.mmap_frames, vpn),
                      !.mmap_frames = MapInsert(M.mmap_frames, vpn, ppn)]
         IN  [M |-> M1, vpn |-> vpn + 1, done |-> FALSE, ret |-> 0]
\* the while loop of MemorySet::mmap from vpn on: [M, ret]
RECURSIVE mmap_loop(_, _, _, _)
mmap_loop(M, vpn, end_vpn, flags) ==
    LET S == mmap_iteration(M, vpn, end_vpn, flags)
    IN  IF S.done THEN [M |-> S.M, ret |-> S.ret]
        ELSE mmap_loop(S.M, S.vpn, end_vpn, flags)
\* mmap without the is_valid check on its first page
mmap_no_check(M, start_vpn, end_vpn, port) ==
    IF start_vpn # end_vpn /\ M.fa # <<>>
    THEN mmap_loop([M EXCEPT
                      !.pt = PTMap(M.pt, start_vpn, Head(M.fa), mmap_flags(port)),
                      !.fa = DropAt(Tail(M.fa), M.mmap_frames, start_vpn),
                      !.mmap_frames = MapInsert(M.mmap_frames, start_vpn, Head(M.fa))],
                   start_vpn + 1, end_vpn, mmap_flags(port))
    ELSE mmap_loop(M, start_vpn, end_vpn, mmap_flags(port))
\* mmap undoing its partial mappings when it fails
mmap_rollback(M, start_vpn, end_vpn, port) ==
    LET R == mmap_loop(M, start_vpn, end_vpn, mmap_flags(port))
    IN  IF R.ret = 0 THEN R ELSE [M |-> M, ret |-> R.ret]
\* MemorySet::mmap
mmap(M, start_vpn, end_vpn, port) ==
    mmap_loop(M, start_vpn, end_vpn, mmap_flags(port))
\* one pass of the while loop of MemorySet::munmap, its test included:
\* the MemorySet, the loop variable, whether munmap returned, and what
munmap_iteration(M, vpn, end_vpn) ==
    IF vpn = end_vpn THEN [M |-> M, vpn |-> vpn, done |-> TRUE, ret |-> 0]
    ELSE IF ~Valid(M.pt, vpn) THEN [M |-> M, vpn |-> vpn, done |-> TRUE, ret |-> 0 - 1]
    ELSE LET M1 == [M EXCEPT
                      !.pt = PTUnmap(M.pt, vpn),
                      !.fa = DropAt(M.fa, M.mmap_frames, vpn),
                      !.mmap_frames = MapRemove(M.mmap_frames, vpn)]
         IN  [M |-> M1, vpn |-> vpn + 1, done |-> FALSE, ret |-> 0]
\* the while loop of MemorySet::munmap from vpn on: [M, ret]
RECURSIVE munmap_loop(_, _, _)
munmap_loop(M, vpn, end_vpn) ==
    LET S == munmap_iteration(M, vpn, end_vpn)
    IN  IF S.done THEN [M |-> S.M, ret |-> S.ret]
        ELSE munmap_loop(S.M, S.vpn, end_vpn)
\* munmap without `self.page_table.unmap(vpn)`
munmap_keeps_entry(M, start_vpn, end_vpn) ==
    LET R == munmap_loop(M, start_vpn, end_vpn)
    IN  [R EXCEPT !.M.pt = M.pt]
\* munmap without `self.mmap_frames.remove(&vpn)`
munmap_keeps_frames(M, start_vpn, end_vpn) ==
    LET R == munmap_loop(M, start_vpn, end_vpn)
    IN  [R EXCEPT !.M.mmap_frames = M.mmap_frames, !.M.fa = M.fa]
\* munmap undoing its partial unmappings when it fails
munmap_rollback(M, start_vpn, end_vpn) ==
    LET R == munmap_loop(M, start_vpn, end_vpn)
    IN  IF R.ret = 0 THEN R ELSE [M |-> M, ret |-> R.ret]
\* MemorySet::munmap
munmap(M, start_vpn, end_vpn) == munmap_loop(M, start_vpn, end_vpn)

\* the frame PageTable::new holds as the root of the table; the frames of
\* the table itself are not taken from the pool of the model
PageTableRoot == ceil(MEMORY_END)
\* PageTable::token: mode 8 in the top four bits, the root's page number below
PageTable_token(root_ppn) == (8 * 2 ^ (UsizeBits - 4) + root_ppn) % UsizeMod
\* MemorySet::token
token == PageTable_token(PageTableRoot)
\* activate issuing sfence.vma before it writes satp
activate_flush_first(satp_value) ==
    <<[ev |-> "sfence_vma", val |-> 0], [ev |-> "satp_write", val |-> satp_value]>>
\* MemorySet::activate after `let satp = self.page_table.token()`: the
\* instructions it executes, in order
activate(satp_value) ==
    <<[ev |-> "satp_write", val |-> satp_value], [ev |-> "sfence_vma", val |-> 0]>>

\* kernel stacks laid out without the guard page between them
kernel_stack_position_no_guard(app_id) ==
    LET top == (TRAMPOLINE - app_id * KERNEL_STACK_SIZE) % UsizeMod
        bottom == (top - KERNEL_STACK_SIZE) % UsizeMod
    IN  <<bottom, top>>
\* kernel_stack_position, in usize arithmetic: <<bottom, top>>
kernel_stack_position(app_id) ==
    LET top == (TRAMPOLINE - app_id * (KERNEL_STACK_SIZE + PAGE_SIZE)) % UsizeMod
        bottom == (top - KERNEL_STACK_SIZE) % UsizeMod
    IN  <<bottom, top>>

(***************************** inputs ***************************************)
\* page numbers passed to mmap and munmap
Vpns == 0 .. MaxVpn
\* addresses passed to insert_framed_area, shrink_to and append_to: page
\* boundaries and one address in the middle of page 1
VAs == {0, PAGE_SIZE, PAGE_SIZE + PAGE_SIZE \div 2, 3 * PAGE_SIZE}
\* permissions passed to insert_framed_area
Perms == {MapPermission_R + MapPermission_W,
          MapPermission_R + MapPermission_X + MapPermission_U}
\* port values passed to mmap: W alone; R and X with a bit above bit 2
Ports == {2, 13}
\* program headers
PhText == [type |-> "Load", virtual_addr |-> 0, mem_size |-> PAGE_SIZE,
           offset |-> PAGE_SIZE, file_size |-> PAGE_SIZE \div 2,
           is_read |-> TRUE, is_write |-> FALSE, is_execute |-> TRUE]
PhData == [type |-> "Load", virtual_addr |-> PAGE_SIZE, mem_size |-> PAGE_SIZE \div 2,
           offset |-> 2 * PAGE_SIZE, file_size |-> PAGE_SIZE \div 4,
           is_read |-> TRUE, is_write |-> TRUE, is_execute |-> FALSE]
PhHigh == [type |-> "Load", virtual_addr |-> 4 * PAGE_SIZE, mem_size |-> PAGE_SIZE,
           offset |-> 2 * PAGE_SIZE, file_size |-> PAGE_SIZE,
           is_read |-> TRUE, is_write |-> FALSE, is_execute |-> FALSE]
PhNote == [type |-> "Note", virtual_addr |-> 0, mem_size |-> 0,
           offset |-> 0, file_size |-> 0,
           is_read |-> TRUE, is_write |-> FALSE, is_execute |-> FALSE]
Elf(magic_ok, phs) == [magic_ok |-> magic_ok, phs |-> phs, entry_point |-> 0]
\* the executable images from_elf is given
Images == <<Elf(TRUE, <<PhNote, PhText, PhData>>),
            Elf(TRUE, <<PhData, PhText>>),
            Elf(TRUE, <<PhHigh, PhText>>),
            Elf(FALSE, <<PhText>>)>>

\* how far above the stack top the caller of from_elf moves the end of the
\* heap area with append_to and shrink_to
HeapDeltas == {0, PAGE_SIZE}
\* data passed to copy_data: its lengths, and where its bytes are numbered
\* from
Lens == {0, PAGE_SIZE \div 2, PAGE_SIZE, PAGE_SIZE + PAGE_SIZE \div 2,
         2 * PAGE_SIZE}
CopySrc == 8 * PAGE_SIZE

(******************************* state *************************************)
VARIABLES
    kind,             \* which constructor built the address space
    page_table,       \* MemorySet.page_table
    areas,            \* MemorySet.areas
    mmap_frames,      \* MemorySet.mmap_frames
    frame_allocator,  \* FRAME_ALLOCATOR: the free frames, next one first
    phys_mem,         \* the contents of the physical frames
    panicked,         \* the kernel has panicked
    call,             \* the last operation and its arguments
    ret,              \* what it returned
    ops,              \* operations applied since construction
    user_sp,          \* the stack top from_elf returned, kept by its caller
    satp,             \* the translation-root register
    hw,               \* satp writes and sfence.vma instructions, in order
    pc,               \* where the running operation stands, "idle" between calls
    vpn               \* the loop variable of a running mmap or munmap

vars == <<kind, page_table, areas, mmap_frames, frame_allocator, phys_mem,
          panicked, call, ret, ops, user_sp, satp, hw, pc, vpn>>

Call(op, start, end, arg) == [op |-> op, start |-> start, end |-> end, arg |-> arg]
\* what an operation returned: nothing, an isize, a bool, or the pair of
\* kernel_stack_position
NoRet == [none |-> TRUE]
Isize(n) == [isize |-> n]
Bool(b) == [bool |-> b]
StackPosition(p) == [bottom |-> p[1], top |-> p[2]]

Init ==
    /\ kind = "none"
    /\ page_table = EmptyMap
    /\ areas = <<>>
    /\ mmap_frames = EmptyMap
    /\ frame_allocator = AscendingFrom(ceil(ekernel), NumFrames)
    /\ phys_mem = [p \in FramePool |-> ZeroPage]
    /\ panicked = FALSE
    /\ call = Call("init", 0, 0, 0)
    /\ ret = NoRet
    /\ ops = 0
    /\ user_sp = 0
    /\ satp = 0
    /\ hw = <<>>
    /\ pc = "idle"
    /\ vpn = 0

\* the MemorySet and its environment as the operators take them
Cur ==
    [pt |-> page_table, areas |-> areas, mmap_frames |-> mmap_frames,
     fa |-> frame_allocator, mem |-> phys_mem, ok |-> TRUE]

\* a panic: the kernel stops, nothing of the address space is used again
Panicked(c) ==
    /\ kind' = "none"
    /\ page_table' = EmptyMap
    /\ areas' = <<>>
    /\ mmap_frames' = EmptyMap
    /\ frame_allocator' = <<>>
    /\ phys_mem' = EmptyMap
    /\ panicked' = TRUE
    /\ call' = c
    /\ ret' = NoRet
    /\ ops' = 0
    /\ user_sp' = 0
    /\ satp' = 0
    /\ hw' = <<>>
    /\ pc' = "idle"
    /\ vpn' = 0

\* the operation c ends with the MemorySet M and returns r
Returns(M, k, c, r, n) ==
    IF M.ok
    THEN /\ kind' = k
         /\ page_table' = M.pt
         /\ areas' = M.areas
         /\ mmap_frames' = M.mmap_frames
         /\ frame_allocator' = M.fa
         /\ phys_mem' = M.mem
         /\ panicked' = FALSE
         /\ call' = c
         /\ ret' = r
         /\ ops' = n
         /\ user_sp' = IF c.op = "from_elf" THEN r.user_sp ELSE user_sp
         /\ pc' = "idle"
         /\ vpn' = 0
         /\ UNCHANGED <<satp, hw>>
    ELSE Panicked(c)

Unbuilt == kind = "none" /\ ~panicked /\ pc = "idle"
Built == kind # "none" /\ ~panicked /\ pc = "idle" /\ ops < MaxOps

(****************************** actions ************************************)
NewBare ==
    /\ Unbuilt
    /\ Returns(new_bare(frame_allocator, phys_mem), "bare",
               Call("new_bare", 0, 0, 0), NoRet, 0)

NewKernel ==
    /\ Unbuilt
    /\ Returns(new_kernel(frame_allocator, phys_mem), "kernel",
               Call("new_kernel", 0, 0, 0), NoRet, 0)

FromElf(i) ==
    /\ Unbuilt
    /\ LET R == from_elf(Images[i], frame_allocator, phys_mem)
       IN  Returns(R.M, "user", Call("from_elf", 0, 0, i),
                   [user_sp |-> R.user_sp, entry |-> R.entry], 0)

InsertFramedArea(start_va, end_va, permission) ==
    /\ Built
    /\ Returns(insert_framed_area(Cur, start_va, end_va, permission), kind,
               Call("insert_framed_area", start_va, end_va, permission),
               NoRet, ops + 1)

ShrinkTo(start, new_end) ==
    /\ Built
    /\ LET R == shrink_to(Cur, start, new_end)
       IN  Returns(R.M, kind, Call("shrink_to", start, new_end, 0), Bool(R.ret),
                   ops + 1)

AppendTo(start, new_end) ==
    /\ Built
    /\ LET R == append_to(Cur, start, new_end)
       IN  Returns(R.M, kind, Call("append_to", start, new_end, 0), Bool(R.ret),
                   ops + 1)

Mmap(start_vpn, end_vpn, port) ==
    /\ Built
    /\ LET R == mmap(Cur, start_vpn, end_vpn, port)
       IN  Returns(R.M, kind, Call("mmap", start_vpn, end_vpn, port),
                   Isize(R.ret), ops + 1)

Munmap(start_vpn, end_vpn) ==
    /\ Built
    /\ LET R == munmap(Cur, start_vpn, end_vpn)
       IN  Returns(R.M, kind, Call("munmap", start_vpn, end_vpn, 0),
                   Isize(R.ret), ops + 1)

KernelStackPosition(app_id) ==
    /\ Built
    /\ kind = "kernel"
    /\ Returns(Cur, kind, Call("kernel_stack_position", app_id, 0, 0),
               StackPosition(kernel_stack_position(app_id)), ops + 1)

\* the hart executes the instruction e
Execute(e) ==
    /\ satp' = IF e.ev = "satp_write" THEN e.val ELSE satp
    /\ hw' = Append(hw, e)

\* activate up to and including its first instruction
ActivateFirst ==
    /\ Built
    /\ Execute(activate(token)[1])
    /\ pc' = "activate"
    /\ call' = Call("activate", 0, 0, 0)
    /\ ret' = NoRet
    /\ ops' = ops + 1
    /\ UNCHANGED <<kind, page_table, areas, mmap_frames, frame_allocator,
                   phys_mem, panicked, user_sp, vpn>>

\* the second instruction of activate, and its return
ActivateSecond ==
    /\ pc = "activate"
    /\ Execute(activate(token)[2])
    /\ pc' = "idle"
    /\ UNCHANGED <<kind, page_table, areas, mmap_frames, frame_allocator,
                   phys_mem, panicked, call, ret, ops, user_sp, vpn>>

\* MapArea::copy_data on area i with data of len bytes
CopyData(i, len) ==
    /\ Built
    /\ LET X == copy_data(AreaCtx(Cur, areas[i]), CopySrc, len)
       IN  Returns(PutArea(Cur, i, X), kind, Call("copy_data", i, len, 0),
                   NoRet, ops + 1)

Next ==
    \/ NewBare
    \/ NewKernel
    \/ \E i \in 1 .. Len(Images) : FromElf(i)
    \/ \E s, e \in VAs, p \in Perms : InsertFramedArea(s, e, p)
    \/ \E s, e \in VAs : ShrinkTo(s, e)
    \/ \E s, e \in VAs : AppendTo(s, e)
    \/ \E d \in HeapDeltas : kind = "user" /\ ShrinkTo(user_sp, user_sp + d)
    \/ \E d \in HeapDeltas : kind = "user" /\ AppendTo(user_sp, user_sp + d)
    \/ \E s, e \in Vpns, p \in Ports : Mmap(s, e, p)
    \/ \E s, e \in Vpns : Munmap(s, e)
    \/ \E i \in 0 .. MaxApp : KernelStackPosition(i)
    \/ ActivateFirst
    \/ ActivateSecond

Spec == Init /\ [][Next]_vars

\* copy_data applied to the areas of constructed address spaces
CopyNext ==
    \/ NewBare
    \/ NewKernel
    \/ \E i \in 1 .. Len(Images) : FromElf(i)
    \/ \E s, e \in VAs, p \in Perms : InsertFramedArea(s, e, p)
    \/ \E i \in 1 .. Len(areas), len \in Lens : CopyData(i, len)

CopySpec == Init /\ [][CopyNext]_vars

\* mmap up to its loop: the flags are derived when the loop uses them
MmapCall(start_vpn, end_vpn, port) ==
    /\ Built
    /\ pc' = "mmap"
    /\ vpn' = start_vpn
    /\ call' = Call("mmap", start_vpn, end_vpn, port)
    /\ ret' = NoRet
    /\ ops' = ops + 1
    /\ UNCHANGED <<kind, page_table, areas, mmap_frames, frame_allocator,
                   phys_mem, panicked, user_sp, satp, hw>>

\* munmap up to its loop
MunmapCall(start_vpn, end_vpn) ==
    /\ Built
    /\ pc' = "munmap"
    /\ vpn' = start_vpn
    /\ call' = Call("munmap", start_vpn, end_vpn, 0)
    /\ ret' = NoRet
    /\ ops' = ops + 1
    /\ UNCHANGED <<kind, page_table, areas, mmap_frames, frame_allocator,
                   phys_mem, panicked, user_sp, satp, hw>>

\* the running call made the pass S of its loop
Iterated(S) ==
    /\ pc' = IF S.done THEN "idle" ELSE pc
    /\ vpn' = IF S.done THEN 0 ELSE S.vpn
    /\ ret' = IF S.done THEN Isize(S.ret) ELSE ret
    /\ page_table' = S.M.pt
    /\ areas' = S.M.areas
    /\ mmap_frames' = S.M.mmap_frames
    /\ frame_allocator' = S.M.fa
    /\ phys_mem' = S.M.mem
    /\ UNCHANGED <<kind, panicked, call, ops, user_sp, satp, hw>>

\* one pass of the loop of a running mmap
MmapIteration ==
    /\ pc = "mmap"
    /\ Iterated(mmap_iteration(Cur, vpn, call.end, mmap_flags(call.arg)))

\* one pass of the loop of a running munmap
MunmapIteration ==
    /\ pc = "munmap"
    /\ Iterated(munmap_iteration(Cur, vpn, call.end))

\* mmap and munmap one pass of their loops at a time
LoopNext ==
    \/ NewBare
    \/ NewKernel
    \/ \E i \in 1 .. Len(Images) : FromElf(i)
    \/ \E s, e \in Vpns, p \in Ports : MmapCall(s, e, p)
    \/ \E s, e \in Vpns : MunmapCall(s, e)
    \/ MmapIteration
    \/ MunmapIteration

\* a call that started keeps running: the kernel makes its calls
\* synchronously and nothing preempts the loop for ever
LoopSpec ==
    /\ Init
    /\ [][LoopNext]_vars
    /\ WF_<<pc, vpn>>(MmapIteration)
    /\ WF_<<pc, vpn>>(MunmapIteration)

(***************************** properties ***********************************)
Range(seq) == {seq[i] : i \in 1 .. Len(seq)}
SetMin(S) == CHOOSE x \in S : \A y \in S : x <= y
SetMax(S) == CHOOSE x \in S : \A y \in S : y <= x
\* the page numbers a step's page tables and raw-mmap maps mention
StepPages ==
    DOMAIN page_table \cup DOMAIN page_table' \cup
    DOMAIN mmap_frames \cup DOMAIN mmap_frames'
\* a step leaves page v as it was, in the page table and in the raw-mmap map
SamePage(v) ==
    /\ PTTranslate(page_table', v) = PTTranslate(page_table, v)
    /\ (v \in DOMAIN mmap_frames') = (v \in DOMAIN mmap_frames)
    /\ v \in DOMAIN mmap_frames => mmap_frames'[v] = mmap_frames[v]
\* a step maps page v to a frame that was free and records it as raw mmap
FreshlyMapped(v) ==
    /\ Valid(page_table', v)
    /\ v \in DOMAIN mmap_frames'
    /\ mmap_frames'[v] = page_table'[v].ppn
    /\ page_table'[v].ppn \in Range(frame_allocator)
    /\ page_table'[v].ppn \notin Range(frame_allocator')
\* a step leaves page v without translation and without raw-mmap frame
Unmapped(v) ==
    /\ ~Valid(page_table', v)
    /\ v \notin DOMAIN mmap_frames'
    /\ v \in DOMAIN mmap_frames => mmap_frames[v] \in Range(frame_allocator')
\* the step is the call of op on a constructed address space
StepOf(op) == call'.op = op /\ kind # "none" /\ ~panicked

\* C1: mmap(a,b,port) on a range a <= b without valid page, with b - a free
\* frames, returns 0 and maps the range; the munmap(a,b) that follows it
\* returns 0 and leaves no page of [a,b) translated or in mmap_frames.
C1_RoundTrip ==
    [][LET a == call'.start
           b == call'.end
       IN  /\ ( /\ StepOf("mmap")
                /\ a <= b
                /\ \A v \in a .. b - 1 : ~Valid(page_table, v)
                /\ Len(frame_allocator) >= b - a )
              => /\ ~panicked'
                 /\ ret' = Isize(0)
                 /\ \A v \in a .. b - 1 : FreshlyMapped(v)
           /\ ( /\ StepOf("munmap")
                /\ call.op = "mmap" /\ ret = Isize(0)
                /\ call.start = a /\ call.end = b
                /\ a <= b )
              => /\ ~panicked'
                 /\ ret' = Isize(0)
                 /\ \A v \in a .. b - 1 : Unmapped(v)
      ]_vars
\* a bare space in which munmap(a,b) has just undone mmap(a,b,_): the only
\* entries of the page table are the emptied ones of [a,b)
C1_Witness ==
    /\ kind = "bare" /\ areas = <<>> /\ ops = 2
    /\ call.op = "munmap" /\ ret = Isize(0) /\ call.start < call.end
    /\ DOMAIN page_table = call.start .. call.end - 1
    /\ \A v \in DOMAIN page_table : page_table[v] = EmptyPTE
    /\ mmap_frames = EmptyMap
    /\ Len(frame_allocator) = NumFrames

\* the page at which mmap(a,b,_) stops short of b: the first page from a on
\* that is already valid or for which no frame is left
MmapStops(a, b) ==
    LET n == Len(frame_allocator)
        scan == IF a <= b THEN a .. b - 1 ELSE a .. a + n
    IN  {v \in scan : Valid(page_table, v) \/ v - a >= n}
\* C2: when mmap meets a valid page, or has no frame left, it returns -1;
\* the pages below that page stay freshly mapped and recorded in
\* mmap_frames, that page and every page above it are as they were.
C2_MmapPartial ==
    [][LET a == call'.start
           b == call'.end
           stops == MmapStops(a, b)
       IN  (StepOf("mmap") /\ stops # {})
           => LET s == SetMin(stops)
              IN  /\ ~panicked'
                  /\ ret' = Isize(0 - 1)
                  /\ \A v \in a .. s - 1 : FreshlyMapped(v)
                  /\ \A v \in StepPages : v >= s => SamePage(v)
      ]_vars
\* mmap has returned -1 at a page mapped by something else, after mapping a
\* page below it
C2_Witness ==
    /\ call.op = "mmap" /\ ret = Isize(0 - 1) /\ ~panicked
    /\ \E v, c \in Vpns :
         /\ call.start <= v /\ v < c /\ c < call.end
         /\ Valid(page_table, v) /\ v \in DOMAIN mmap_frames
         /\ Valid(page_table, c) /\ c \notin DOMAIN mmap_frames

\* the page at which munmap(a,b) stops short of b: the first page from a on
\* that is not valid
MunmapStops(a, b) ==
    LET scan == IF a <= b THEN a .. b - 1
                ELSE a .. SetMax(DOMAIN page_table \cup {a}) + 1
    IN  {v \in scan : ~Valid(page_table, v)}
\* C9: munmap returns -1 at the first page that is not valid; the pages
\* below it have lost their entry and their raw-mmap frame, that page and the
\* pages above it are as they were; it returns 0 only if it met no such page.
C9_MunmapPartial ==
    [][LET a == call'.start
           b == call'.end
           stops == MunmapStops(a, b)
       IN  StepOf("munmap")
           => /\ ~panicked'
              /\ stops # {} =>
                   LET s == SetMin(stops)
                   IN  /\ ret' = Isize(0 - 1)
                       /\ \A v \in a .. s - 1 : Unmapped(v)
                       /\ \A v \in StepPages : v >= s => SamePage(v)
              /\ stops = {} => ret' = Isize(0) /\ \A v \in a .. b - 1 : Unmapped(v)
              /\ ret' = Isize(0) => a <= b /\ \A v \in a .. b - 1 : Valid(page_table, v)
      ]_vars
\* munmap has returned -1 at an invalid page s after emptying the entry of
\* the page below it, and a page above s is still valid
C9_Witness ==
    /\ call.op = "munmap" /\ ret = Isize(0 - 1) /\ ~panicked
    /\ \E s \in Vpns :
         /\ call.start < s /\ s < call.end
         /\ \A v \in call.start .. s - 1 : PTTranslate(page_table, v) = EmptyPTE
         /\ ~Valid(page_table, s)
         /\ \E w \in DOMAIN page_table : w > s /\ Valid(page_table, w)

\* C3: insert_framed_area(s, e, P) on pages that were not mapped appends a
\* Framed area over [floor(s), ceil(e)); each of its pages is valid with
\* R/W/X/U bits exactly P on a frame of its own, free before; no other page
\* changes. [0x1000, 0x3000) with R|W maps pages 1 and 2, writable, not
\* executable, not user-accessible.
C3_InsertFramedArea ==
    [][LET l == floor(call'.start)
           r == ceil(call'.end)
           P == call'.arg
           new == areas'[Len(areas')]
       IN  StepOf("insert_framed_area")
           => /\ ( /\ l <= r
                   /\ \A v \in l .. r - 1 : ~Valid(page_table, v)
                   /\ Len(frame_allocator) >= r - l ) => ~panicked'
              /\ ~panicked' =>
                   /\ Len(areas') = Len(areas) + 1
                   /\ new.vpn_range = [l |-> l, r |-> r]
                   /\ new.map_type = "Framed" /\ new.map_perm = P
                   /\ DOMAIN new.data_frames = l .. r - 1
                   /\ \A v \in l .. r - 1 :
                        /\ Valid(page_table', v)
                        /\ PermBits(page_table'[v].flags) = P
                        /\ page_table'[v].ppn = new.data_frames[v]
                        /\ page_table'[v].ppn \in Range(frame_allocator)
                        /\ page_table'[v].ppn \notin Range(frame_allocator')
                   /\ \A v, w \in l .. r - 1 :
                        v # w => page_table'[v].ppn # page_table'[w].ppn
                   /\ \A v \in DOMAIN page_table \cup DOMAIN page_table' :
                        v \notin l .. r - 1 =>
                          PTTranslate(page_table', v) = PTTranslate(page_table, v)
                   /\ ( /\ call'.start = 4096 /\ call'.end = 12288
                        /\ P = MapPermission_R + MapPermission_W )
                      => /\ l .. r - 1 = {1, 2}
                         /\ \A v \in {1, 2} :
                              /\ HasBit(page_table'[v].flags, PTE_W)
                              /\ ~HasBit(page_table'[v].flags, PTE_X)
                              /\ ~HasBit(page_table'[v].flags, PTE_U)
      ]_vars
\* insert_framed_area([0x1000, 0x3000), R|W) has mapped pages 1 and 2 of a
\* bare space
C3_Witness ==
    /\ kind = "bare" /\ ~panicked
    /\ call = Call("insert_framed_area", 4096, 12288,
                   MapPermission_R + MapPermission_W)
    /\ Valid(page_table, 1) /\ Valid(page_table, 2)
    /\ page_table[1].ppn # page_table[2].ppn
    /\ ~Valid(page_table, 0) /\ ~Valid(page_table, 3)

\* the areas whose first page is the page containing start
StartsAt(start) == {j \in 1 .. Len(areas) : areas[j].vpn_range.l = floor(start)}
\* C4: append_to on the area [S,E) maps [E,E') with the area's permission
\* and policy and makes the range [S,E'); shrink_to unmaps [E'',E), returns
\* the frames to the allocator and makes the range [S,E''); the pages the
\* old and the new range share keep their entry and their frame.
C4_Resize ==
    [][(/\ (StepOf("append_to") \/ StepOf("shrink_to"))
        /\ ~panicked' /\ ret' = Bool(TRUE))
       => LET i == SetMin(StartsAt(call'.start))
              A == areas[i]
              B == areas'[i]
              S == A.vpn_range.l
              E == A.vpn_range.r
              N == ceil(call'.end)
          IN  /\ B.vpn_range = [l |-> S, r |-> N]
              /\ B.map_type = A.map_type /\ B.map_perm = A.map_perm
              /\ S <= N
              /\ call'.op = "append_to" =>
                   /\ N >= E
                   /\ \A v \in E .. N - 1 :
                        /\ Valid(page_table', v)
                        /\ PermBits(page_table'[v].flags) = A.map_perm
                        /\ A.map_type = "Identical" => page_table'[v].ppn = v
                        /\ A.map_type = "Framed" =>
                             /\ v \in DOMAIN B.data_frames
                             /\ page_table'[v].ppn = B.data_frames[v]
                             /\ page_table'[v].ppn \in Range(frame_allocator)
              /\ call'.op = "shrink_to" =>
                   /\ N <= E
                   /\ \A v \in N .. E - 1 :
                        /\ ~Valid(page_table', v)
                        /\ v \notin DOMAIN B.data_frames
                        /\ v \in DOMAIN A.data_frames =>
                             A.data_frames[v] \in Range(frame_allocator')
              /\ \A v \in S .. Min(E, N) - 1 :
                   /\ PTTranslate(page_table', v) = PTTranslate(page_table, v)
                   /\ (v \in DOMAIN B.data_frames) = (v \in DOMAIN A.data_frames)
                   /\ v \in DOMAIN A.data_frames =>
                        B.data_frames[v] = A.data_frames[v]
      ]_vars
\* in a space built from an image, an area grown by append_to has been
\* shrunk again: the page above its end was mapped and is now emptied
C4_Witness ==
    /\ kind = "user" /\ ~panicked /\ ops = 2
    /\ call.op = "shrink_to" /\ ret = Bool(TRUE)
    /\ mmap_frames = EmptyMap
    /\ \E i \in 1 .. Len(areas) :
         /\ areas[i].vpn_range.l = floor(call.start)
         /\ areas[i].vpn_range.r = ceil(call.end)
         /\ areas[i].vpn_range.l < areas[i].vpn_range.r
         /\ \A v \in areas[i].vpn_range.l .. areas[i].vpn_range.r - 1 :
              Valid(page_table, v) /\ v \in DOMAIN areas[i].data_frames
         /\ PTTranslate(page_table, areas[i].vpn_range.r) = EmptyPTE

\* C10: shrink_to and append_to return true exactly when an area starts at
\* the page containing start; when none does, nothing changes; when one
\* does, the first such area is resized and every other area is as it was.
C10_LookupMiss ==
    [][(/\ (StepOf("append_to") \/ StepOf("shrink_to"))
        /\ ~panicked')
       => LET hits == StartsAt(call'.start)
          IN  /\ ret' = Bool(hits # {})
              /\ hits = {} =>
                   /\ page_table' = page_table
                   /\ areas' = areas
                   /\ mmap_frames' = mmap_frames
                   /\ frame_allocator' = frame_allocator
                   /\ phys_mem' = phys_mem
              /\ hits # {} =>
                   /\ Len(areas') = Len(areas)
                   /\ mmap_frames' = mmap_frames
                   /\ areas'[SetMin(hits)].vpn_range.r = ceil(call'.end)
                   /\ \A j \in 1 .. Len(areas) :
                        j # SetMin(hits) => areas'[j] = areas[j]
      ]_vars
\* shrink_to or append_to has returned false on a space that has areas, none
\* of them starting at the page of start
C10_Witness ==
    /\ call.op \in {"shrink_to", "append_to"} /\ ret = Bool(FALSE) /\ ~panicked
    /\ areas # <<>>
    /\ StartsAt(call.start) = {}

\* the pages of the kernel's .text, .rodata and .data
TextPages == floor(stext) .. ceil(etext) - 1
RodataPages == floor(srodata) .. ceil(erodata) - 1
DataPages == floor(sdata) .. ceil(edata) - 1
\* C5 as claimed: in every state of the kernel space each .text page
\* translates to the physical page of its own number and is not writable,
\* no .rodata page is writable, no .data page is executable.
C5_KernelSpaceAlways ==
    kind = "kernel" =>
      /\ \A v \in TextPages :
           /\ Valid(page_table, v)
           /\ page_table[v].ppn = v
           /\ ~HasBit(page_table[v].flags, PTE_W)
      /\ \A v \in RodataPages : ~HasBit(PTTranslate(page_table, v).flags, PTE_W)
      /\ \A v \in DataPages : ~HasBit(PTTranslate(page_table, v).flags, PTE_X)
\* the kernel sections as new_kernel maps them
KernelSections ==
    /\ \A v \in TextPages \cup RodataPages \cup DataPages : Valid(page_table, v)
    /\ \A v \in TextPages :
         page_table[v].ppn = v /\ ~HasBit(page_table[v].flags, PTE_W)
    /\ \A v \in RodataPages : ~HasBit(page_table[v].flags, PTE_W)
    /\ \A v \in DataPages : ~HasBit(page_table[v].flags, PTE_X)
\* C5 as amended: new_kernel maps every .text page to the physical page of
\* its own number, not writable, every .rodata page not writable and every
\* .data page not executable, and every operation but munmap and shrink_to
\* keeps it so.
C5_KernelSpace ==
    [][( /\ kind' = "kernel"
         /\ \/ kind = "none"
            \/ KernelSections /\ call'.op \notin {"munmap", "shrink_to"} )
       => KernelSections'
      ]_vars
\* mmap with the writable bit on the kernel's .text page has returned -1 and
\* the sections are as new_kernel mapped them
C5_Witness ==
    /\ kind = "kernel" /\ ~panicked /\ ops > 0
    /\ call.op = "mmap" /\ call.start \in TextPages /\ call.start < call.end
    /\ HasBit(mmap_flags(call.arg), PTE_W)
    /\ ret = Isize(0 - 1)
    /\ KernelSections

\* the pages with a valid entry
ValidPages == {v \in DOMAIN page_table : Valid(page_table, v)}
\* the pages of area j
AreaPages(j) == areas[j].vpn_range.l .. areas[j].vpn_range.r - 1
\* the pages of all areas
AllAreaPages == UNION {AreaPages(j) : j \in 1 .. Len(areas)}
TrampolinePage == floor(TRAMPOLINE)
\* C6 as claimed: the valid pages are the pages of the areas, the keys of
\* mmap_frames and, in the kernel space only, the trampoline page.
C6_ValidPagesExact ==
    ValidPages = AllAreaPages \cup DOMAIN mmap_frames \cup
                 (IF kind = "kernel" THEN {TrampolinePage} ELSE {})
\* the trampoline page of the spaces new_kernel and from_elf build
Trampolines == IF kind \in {"kernel", "user"} THEN {TrampolinePage} ELSE {}
\* the valid pages are exactly the areas' pages, the raw-mmap keys and the
\* trampoline page, and no page is counted twice
ExactlyOwned ==
    /\ ValidPages = AllAreaPages \cup DOMAIN mmap_frames \cup Trampolines
    /\ AllAreaPages \cap DOMAIN mmap_frames = {}
    /\ Trampolines \cap (AllAreaPages \cup DOMAIN mmap_frames) = {}
    /\ \A i, j \in 1 .. Len(areas) : i # j => AreaPages(i) \cap AreaPages(j) = {}
\* C6 as amended: every valid page is a page of an area, a key of
\* mmap_frames or the trampoline page (of a kernel or an image space); the
\* constructors make the two sets equal, each page counted once, and
\* every operation but munmap keeps them so.
C6_ValidPages ==
    /\ [](ValidPages \subseteq AllAreaPages \cup DOMAIN mmap_frames \cup Trampolines)
    /\ [][(ExactlyOwned /\ call'.op # "munmap") => ExactlyOwned']_vars
\* an image space with areas, a raw-mmap page and the trampoline, the valid
\* pages being exactly theirs
C6_Witness ==
    /\ kind = "user" /\ ~panicked
    /\ call.op = "mmap" /\ ret = Isize(0) /\ mmap_frames # EmptyMap
    /\ Valid(page_table, TrampolinePage)
    /\ ExactlyOwned

\* the loadable headers of image i
Loadable(i) == {k \in 1 .. Len(Images[i].phs) : Images[i].phs[k].type = "Load"}
\* the highest ending page number over the loadable headers of image i
HighestEnd(i) ==
    SetMax({ceil(Images[i].phs[k].virtual_addr + Images[i].phs[k].mem_size) :
              k \in Loadable(i)})
\* C7: after from_elf the page numbered as the highest ending page of the
\* loadable headers is unmapped, the user stack starts one page above it and
\* has USER_STACK_SIZE bytes, and the returned stack top is its end.
C7_StackAboveHighestEnd ==
    ( /\ call.op = "from_elf" /\ kind = "user" /\ ~panicked
      /\ Loadable(call.arg) # {} )
    => LET g == HighestEnd(call.arg)
           bottom == g + 1
           top == bottom + USER_STACK_SIZE \div PAGE_SIZE
       IN  /\ ~Valid(page_table, g)
           /\ \E j \in 1 .. Len(areas) :
                /\ areas[j].vpn_range = [l |-> bottom, r |-> top]
                /\ areas[j].map_perm =
                     MapPermission_R + MapPermission_W + MapPermission_U
           /\ ret.user_sp = VpnToVa(bottom) + USER_STACK_SIZE

\* the stack of task i lies below the trampoline without wrapping around
StackFits(i) ==
    i * (KERNEL_STACK_SIZE + PAGE_SIZE) + KERNEL_STACK_SIZE <= TRAMPOLINE
\* C8 as claimed: the stack of every task has KERNEL_STACK_SIZE bytes, lies
\* one full page above the stack of the next task, and a full page below the
\* trampoline.
C8_GuardEverywhere ==
    (call.op = "kernel_stack_position" /\ ~panicked)
    => LET bottom == ret.bottom
           top == ret.top
           next == kernel_stack_position(call.start + 1)
       IN  /\ top - bottom = KERNEL_STACK_SIZE
           /\ next[2] + PAGE_SIZE <= bottom
           /\ top + PAGE_SIZE <= TRAMPOLINE
\* C8 as amended: for every task whose stack fits below the trampoline, the
\* stack has KERNEL_STACK_SIZE bytes and the next task's stack, if it fits,
\* ends exactly one page below it; stack 0 ends at the trampoline, with no
\* page between, and every other stack has at least a page between.
C8_KernelStacks ==
    (call.op = "kernel_stack_position" /\ ~panicked /\ StackFits(call.start))
    => LET bottom == ret.bottom
           top == ret.top
           next == kernel_stack_position(call.start + 1)
       IN  /\ top - bottom = KERNEL_STACK_SIZE
           /\ top <= TRAMPOLINE
           /\ StackFits(call.start + 1) =>
                next[2] < bottom /\ bottom - next[2] = PAGE_SIZE
           /\ call.start = 0 => top = TRAMPOLINE
           /\ call.start > 0 => top + PAGE_SIZE <= TRAMPOLINE
\* the stack of task 0 has been computed: it ends where the trampoline
\* page begins
C8_Witness ==
    /\ call.op = "kernel_stack_position" /\ ~panicked
    /\ call.start = 0
    /\ ret = StackPosition(<<TRAMPOLINE - KERNEL_STACK_SIZE, TRAMPOLINE>>)

\* the contents of physical page ppn; pages outside the frame pool are not
\* tracked and read as zeroes
PageOf(mem, ppn) == IF ppn \in DOMAIN mem THEN mem[ppn] ELSE ZeroPage
\* the byte offsets of a page that are compared: the first and the last
\* byte of each sixteenth of the page; every length of the model is a
\* multiple of a sixteenth of a page, so these are the bytes on both sides
\* of every place where the contents can change
SampleBytes ==
    {b \in 0 .. PAGE_SIZE - 1 :
       b % (PAGE_SIZE \div 16) \in {0, PAGE_SIZE \div 16 - 1}}
\* the pages copy_data with len bytes touches, counted from the first
TouchedPages(len) == {k \in 0 .. len \div PAGE_SIZE : k = 0 \/ k * PAGE_SIZE < len}
OwnFrames(a) ==
    {a.data_frames[v] : v \in DOMAIN a.data_frames \cap
                              (a.vpn_range.l .. a.vpn_range.r - 1)}
\* C20: copy_data on a Framed area whose pages are mapped, with data of any
\* length, does not fail on the translation of a page outside the area and
\* changes the contents of no frame but those the area owns for its pages.
C20_CopyStaysInside ==
    [][( /\ StepOf("copy_data")
         /\ areas[call'.start].map_type = "Framed"
         /\ \A v \in areas[call'.start].vpn_range.l ..
                     areas[call'.start].vpn_range.r - 1 :
              /\ Valid(page_table, v)
              /\ v \in DOMAIN areas[call'.start].data_frames
              /\ page_table[v].ppn = areas[call'.start].data_frames[v] )
       => /\ ~panicked'
          /\ \A p \in (DOMAIN phys_mem \cup DOMAIN phys_mem')
                        \ OwnFrames(areas[call'.start]) :
               PageOf(phys_mem', p) = PageOf(phys_mem, p)
      ]_vars

\* the set of flags the three low bits of port stand for, with U and V
PortFlags(port) ==
    {PTE_U, PTE_V}
      \cup (IF port % 2 = 1 THEN {PTE_R} ELSE {})
      \cup (IF (port \div 2) % 2 = 1 THEN {PTE_W} ELSE {})
      \cup (IF (port \div 4) % 2 = 1 THEN {PTE_X} ELSE {})
\* the flags set in the bits n of an entry
FlagsOf(n) == {f \in {1, 2, 4, 8, 16, 32, 64, 128} : HasBit(n, f)}
\* C12: every page an mmap call maps gets exactly the flags R if bit 0 of
\* port is set, W if bit 1 is set, X if bit 2 is set, plus U and V; the
\* bits of port above bit 2 change nothing.
C12_MmapFlags ==
    /\ \A q \in 0 .. 63 :
         /\ FlagsOf(mmap_flags(q)) = PortFlags(q)
         /\ mmap_flags(q) = mmap_flags(q % 8)
    /\ [][StepOf("mmap") =>
            \A v \in DOMAIN page_table' :
              (Valid(page_table', v) /\ ~Valid(page_table, v)) =>
                FlagsOf(page_table'[v].flags) = PortFlags(call'.arg)
         ]_vars
\* mmap with port 13 (bits 0, 2 and 3) has mapped its pages readable,
\* executable, user-accessible and not writable
C12_Witness ==
    /\ call.op = "mmap" /\ ~panicked /\ ret = Isize(0)
    /\ call.arg = 13 /\ call.start < call.end
    /\ \A v \in call.start .. call.end - 1 :
         /\ Valid(page_table, v)
         /\ FlagsOf(page_table[v].flags) = {PTE_V, PTE_R, PTE_X, PTE_U}

\* C13: activate writes the token of the address space to satp and then,
\* before it returns, executes one sfence.vma: the instructions the hart
\* has executed are pairs of a satp write of the token followed by a
\* sfence.vma, the second of a pair missing only while activate runs; no
\* step between the two, and neither of them, changes the address space.
C13_Activate ==
    /\ [](/\ \A j \in 1 .. Len(hw) :
               IF j % 2 = 1
               THEN hw[j] = [ev |-> "satp_write", val |-> token]
               ELSE hw[j] = [ev |-> "sfence_vma", val |-> 0]
          /\ (Len(hw) % 2 = 1) = (pc = "activate")
          /\ hw # <<>> => satp = token
          /\ (call.op = "activate" /\ pc = "idle") => Len(hw) >= 2)
    /\ [][(pc = "activate" \/ pc' = "activate") =>
            /\ UNCHANGED <<kind, page_table, areas, mmap_frames,
                           frame_allocator, phys_mem, panicked>>
            /\ Len(hw') = Len(hw) + 1
            /\ pc = "activate" => pc' = "idle"
         ]_vars
\* activate has returned on an image's address space: satp holds its token
\* and the last instruction executed is the sfence.vma after the write
C13_Witness ==
    /\ kind = "user" /\ ~panicked /\ pc = "idle"
    /\ call.op = "activate"
    /\ satp = token /\ satp # 0
    /\ Len(hw) >= 2
    /\ hw[Len(hw) - 1].ev = "satp_write" /\ hw[Len(hw)].ev = "sfence_vma"

\* area a is mapped as its policy says: a Framed area owns one frame for
\* each page of its range and for no other page, and the page translates to
\* it; an Identical area owns no frame and each page of its range translates
\* to the physical page of its own number
SegmentOk(a) ==
    LET pages == a.vpn_range.l .. a.vpn_range.r - 1
    IN  IF a.map_type = "Framed"
        THEN /\ DOMAIN a.data_frames = pages
             /\ \A v \in pages :
                  Valid(page_table, v) /\ page_table[v].ppn = a.data_frames[v]
             /\ \A v, w \in pages : v # w => a.data_frames[v] # a.data_frames[w]
        ELSE /\ a.data_frames = EmptyMap
             /\ \A v \in pages : Valid(page_table, v) /\ page_table[v].ppn = v
SegmentInv ==
    /\ \A j \in 1 .. Len(areas) : SegmentOk(areas[j])
    /\ \A i, j \in 1 .. Len(areas) : i # j => AreaPages(i) \cap AreaPages(j) = {}
\* C14: the constructors establish, and insert_framed_area, append_to and
\* shrink_to preserve: each Framed area owns exactly one frame for every
\* page of its range and none outside it, each Identical area owns no
\* frame and maps every page of its range to the page of the same number,
\* and no page lies in the ranges of two areas.
C14_SegmentInvariant ==
    [][( /\ call'.op \in {"new_bare", "new_kernel", "from_elf",
                          "insert_framed_area", "append_to", "shrink_to"}
         /\ SegmentInv )
       => SegmentInv'
      ]_vars
\* append_to has grown a Framed area of an image's address space to two
\* pages or more, and the areas are as the invariant says
C14_Witness ==
    /\ kind = "user" /\ ~panicked
    /\ call.op = "append_to" /\ ret = Bool(TRUE)
    /\ \E j \in 1 .. Len(areas) :
         /\ areas[j].map_type = "Framed"
         /\ areas[j].vpn_range.l = floor(call.start)
         /\ areas[j].vpn_range.r = ceil(call.end)
         /\ areas[j].vpn_range.r >= areas[j].vpn_range.l + 2
    /\ SegmentInv

\* the entries of the ownership maps: who = 0 for mmap_frames, j for the
\* data_frames of area j
HeldEntries ==
    {[who |-> 0, vpn |-> v, ppn |-> mmap_frames[v]] : v \in DOMAIN mmap_frames}
    \cup UNION {{[who |-> j, vpn |-> v, ppn |-> areas[j].data_frames[v]] :
                   v \in DOMAIN areas[j].data_frames} : j \in 1 .. Len(areas)}
HeldFrames == {e.ppn : e \in HeldEntries}
FreeFrames == Range(frame_allocator)
\* each frame of the pool is either free, once, or held by one entry
Exclusive ==
    /\ \A e1, e2 \in HeldEntries : e1 # e2 => e1.ppn # e2.ppn
    /\ HeldFrames \cap FreeFrames = {}
    /\ HeldFrames \cup FreeFrames = FramePool
    /\ Cardinality(FreeFrames) = Len(frame_allocator)
\* the pages with a valid entry whose target is frame f
PagesInto(f) == {v \in ValidPages : page_table[v].ppn = f}
\* the frames a step returns to the allocator
Returned == Range(frame_allocator') \ Range(frame_allocator)
\* C15 as claimed: every allocated frame is held by exactly one entry of
\* one ownership map, a frame goes back to the allocator once, when its
\* entry is dropped, and then no valid entry of the page table has it as
\* its target.
C15_NoEntryIntoFreedFrame ==
    /\ [](~panicked => Exclusive)
    /\ [][~panicked' =>
            \A f \in Returned :
              /\ f \in HeldFrames /\ f \notin HeldFrames'
              /\ PagesInto(f)' = {}
         ]_vars
\* the pages of the Identical areas
IdenticalPages ==
    UNION {AreaPages(j) : j \in {i \in 1 .. Len(areas) :
                                   areas[i].map_type = "Identical"}}
\* C15 as amended: every allocated frame is held by exactly one entry of
\* one ownership map and no free frame is held; a frame goes back to the
\* allocator only in a step that drops the entry holding it; the only
\* valid entries whose target is a free frame are those of the kernel's
\* Identical areas, which map each physical page, free or not, at the page
\* of its own number.
C15_FrameOwnership ==
    /\ [](~panicked =>
            /\ Exclusive
            /\ \A f \in FreeFrames : PagesInto(f) \subseteq IdenticalPages \cap {f})
    /\ [][~panicked' =>
            \A f \in Returned : f \in HeldFrames /\ f \notin HeldFrames'
         ]_vars
\* munmap on the kernel space has returned the frame mmap had taken: the
\* ownership maps are empty, every frame is free, and the returned frame is
\* still the target of the entry of the kernel's identical map
C15_Witness ==
    /\ kind = "kernel" /\ ~panicked
    /\ call.op = "munmap" /\ ret = Isize(0) /\ call.start < call.end
    /\ ~Valid(page_table, call.start)
    /\ HeldEntries = {}
    /\ FreeFrames = FramePool
    /\ PagesInto(Head(frame_allocator)) = {Head(frame_allocator)}

\* the index of the area shrink_to and append_to find for the stack top
HeapIndex == find_area(areas, floor(user_sp), 1)
\* the pages of the user stack, below the stack top
StackPages == floor(user_sp) - USER_STACK_SIZE \div PAGE_SIZE .. floor(user_sp) - 1
\* C16: from_elf leaves an empty Framed R+W+U area starting at the stack
\* top it returns, right above the user stack; append_to from the stack top
\* to an end not below the area's end returns true and maps the added
\* pages R+W+U; shrink_to from the stack top then unmaps the pages it
\* removes; neither touches a page of the user stack.
C16_HeapArea ==
    /\ []((call.op = "from_elf" /\ kind = "user" /\ ~panicked) =>
            /\ user_sp = ret.user_sp
            /\ user_sp = VpnToVa(floor(user_sp))
            /\ HeapIndex # 0
            /\ areas[HeapIndex] =
                 [vpn_range |-> [l |-> floor(user_sp), r |-> floor(user_sp)],
                  data_frames |-> EmptyMap,
                  map_type |-> "Framed",
                  map_perm |-> MapPermission_R + MapPermission_W + MapPermission_U]
            /\ \E j \in 1 .. Len(areas) :
                 /\ AreaPages(j) = StackPages
                 /\ areas[j].map_perm =
                      MapPermission_R + MapPermission_W + MapPermission_U
            /\ \A v \in StackPages : Valid(page_table, v))
    /\ [][( /\ kind = "user" /\ ~panicked /\ ~panicked'
            /\ call'.op \in {"append_to", "shrink_to"}
            /\ call'.start = user_sp )
          => LET old == areas[HeapIndex].vpn_range.r
                 new == ceil(call'.end)
             IN  /\ ret' = Bool(TRUE)
                 /\ areas'[HeapIndex].vpn_range = [l |-> floor(user_sp), r |-> new]
                 /\ call'.op = "append_to" =>
                      \A v \in old .. new - 1 :
                        /\ Valid(page_table', v)
                        /\ ~Valid(page_table, v)
                        /\ FlagsOf(page_table'[v].flags) = {PTE_V, PTE_R, PTE_W, PTE_U}
                 /\ call'.op = "shrink_to" =>
                      \A v \in new .. old - 1 :
                        Valid(page_table, v) /\ ~Valid(page_table', v)
                 /\ \A v \in StackPages :
                      PTTranslate(page_table', v) = PTTranslate(page_table, v)
         ]_vars

\* the flags a program header asks for, with U and V
HeaderFlags(ph) ==
    {PTE_U, PTE_V}
      \cup (IF ph.is_read THEN {PTE_R} ELSE {})
      \cup (IF ph.is_write THEN {PTE_W} ELSE {})
      \cup (IF ph.is_execute THEN {PTE_X} ELSE {})
\* the pages of program header ph
HeaderPages(ph) ==
    floor(ph.virtual_addr) .. ceil(ph.virtual_addr + ph.mem_size) - 1
\* C17: in the address space from_elf returns, the pages of each loadable
\* header carry exactly the header's R/W/X flags plus U, the pages of the
\* user stack R+W+U, the trap-context page R+W without U and the
\* trampoline page R+X without U; the bytes of a header's pages are its
\* file span followed by zeroes.
C17_UserSplit ==
    (call.op = "from_elf" /\ kind = "user" /\ ~panicked) =>
      /\ \A k \in Loadable(call.arg) :
           LET ph == Images[call.arg].phs[k]
           IN  \A v \in HeaderPages(ph) :
                 /\ Valid(page_table, v)
                 /\ FlagsOf(page_table[v].flags) = HeaderFlags(ph)
                 /\ \A b \in SampleBytes :
                      LET i == (v - floor(ph.virtual_addr)) * PAGE_SIZE + b
                      IN  ByteAt(PageOf(phys_mem, page_table[v].ppn), b) =
                            IF i < ph.file_size THEN ph.offset + i ELSE 0 - 1
      /\ \A v \in StackPages :
           /\ Valid(page_table, v)
           /\ FlagsOf(page_table[v].flags) = {PTE_V, PTE_R, PTE_W, PTE_U}
      /\ Valid(page_table, floor(TRAP_CONTEXT_BASE))
      /\ FlagsOf(page_table[floor(TRAP_CONTEXT_BASE)].flags) = {PTE_V, PTE_R, PTE_W}
      /\ floor(TRAP_CONTEXT_BASE) = TrampolinePage - 1
      /\ Valid(page_table, TrampolinePage)
      /\ FlagsOf(page_table[TrampolinePage].flags) = {PTE_V, PTE_R, PTE_X}
\* from_elf has returned for the image with .text and .data: the page of
\* .data is R+W+U and holds a quarter page of file bytes, then zeroes; the
\* trap-context page is not user-accessible
C17_Witness ==
    /\ call.op = "from_elf" /\ call.arg = 1 /\ kind = "user" /\ ~panicked
    /\ FlagsOf(page_table[1].flags) = {PTE_V, PTE_R, PTE_W, PTE_U}
    /\ FlagsOf(page_table[0].flags) = {PTE_V, PTE_R, PTE_X, PTE_U}
    /\ ByteAt(phys_mem[page_table[1].ppn], PAGE_SIZE \div 4 - 1)
         = PhData.offset + PAGE_SIZE \div 4 - 1
    /\ ByteAt(phys_mem[page_table[1].ppn], PAGE_SIZE \div 4) = 0 - 1
    /\ ~HasBit(page_table[floor(TRAP_CONTEXT_BASE)].flags, PTE_U)

\* C18: an mmap or munmap call with any start and end returns 0 or -1 and
\* leaves the translation and the raw-mmap frame of every page outside
\* [start, end) as they were, and the areas as they were.
C18_FrameCondition ==
    [][(kind # "none" /\ ~panicked /\ call'.op \in {"mmap", "munmap"}) =>
         /\ ~panicked'
         /\ ret' \in {Isize(0), Isize(0 - 1)}
         /\ areas' = areas
         /\ \A v \in StepPages \ (call'.start .. call'.end - 1) : SamePage(v)
      ]_vars

\* C19: every call of mmap and munmap, whatever start and end are, returns
\* 0 or -1 after finitely many passes of its loop; a call with start = end
\* returns 0 on its first pass and changes nothing; a call with start > end
\* never returns 0.
C19_Termination ==
    /\ (pc \in {"mmap", "munmap"}) ~>
           (/\ pc = "idle"
            /\ call.op \in {"mmap", "munmap"}
            /\ ret \in {Isize(0), Isize(0 - 1)})
    /\ [][(pc \in {"mmap", "munmap"} /\ call.start = call.end) =>
            /\ pc' = "idle"
            /\ ret' = Isize(0)
            /\ UNCHANGED <<kind, page_table, areas, mmap_frames,
                           frame_allocator, phys_mem, panicked>>]_vars
    /\ [][(pc = "idle" /\ pc' \in {"mmap", "munmap"}) =>
            UNCHANGED <<kind, page_table, areas, mmap_frames,
                        frame_allocator, phys_mem, panicked>>]_vars
    /\ []((pc = "idle" /\ call.op \in {"mmap", "munmap"} /\ call.start > call.end)
            => ret = Isize(0 - 1))
\* an mmap call with start > end mapped pages until the pool was empty and
\* returned -1
C19_Witness ==
    /\ pc = "idle"
    /\ call.op = "mmap"
    /\ call.start > call.end
    /\ ret = Isize(0 - 1)
    /\ frame_allocator = <<>>
    /\ call.start \in DOMAIN mmap_frames

====
